---------------------------- MODULE Spec2Model ----------------------------
(***************************************************************************)
(* Model of the calculation core of the financial-analysis tool server:   *)
(*   src/utils/calculate_metrics.py  (calculate_financial_metric,          *)
(*                                    extract_value, safe_div,             *)
(*                                    calculate_technical_indicators,      *)
(*                                    calculate_growth_rates,              *)
(*                                    calculate_trading_opportunities)     *)
(*   src/utils/visualization.py      (plot_trading_opportunities)          *)
(*   src/tools/metrics.py            (mcp_calculate_financial_metrics,     *)
(*                                    mcp_calculate_technical_indicators,  *)
(*                                    mcp_calculate_growth_rates)          *)
(*   src/tools/plot.py               (mcp_plot_trading_opportunities)      *)
(* In Spec the host calls the tools one at a time; a call computes its     *)
(* result from its arguments alone and returns it.  In SpecConc the host   *)
(* has two calls in progress and their steps interleave.                   *)
(*                                                                         *)
(* Python values are tagged records:                                       *)
(*   [t |-> "num", n, d]   a number, the rational n/d in lowest terms      *)
(*   [t |-> "none"]        None                                            *)
(*   [t |-> "str", s]      a str                                           *)
(*   [t |-> "nan"], [t |-> "inf"], [t |-> "ninf"]   float specials         *)
(*   [t |-> "sqrt", n, d]  the float sqrt(n/d)                             *)
(*   [t |-> "finite"]      a finite float whose magnitude is not kept      *)
(*   [t |-> "raise", s]    an exception of type s propagating              *)
(* A dict is a function whose DOMAIN is its key set.                       *)
(***************************************************************************)
EXTENDS Integers, Sequences, FiniteSets, TLC

VARIABLES op, financial_data, indicator, price_data, window, long_window,
          series, result, calls

vars == <<op, financial_data, indicator, price_data, window, long_window,
          series, result, calls>>

-----------------------------------------------------------------------------
(* Bounds of the model *)

\* field values and malformed entries range over the integers 0..MaxNum
MaxNum == 2

\* a price series has 1..MaxLen prices, each in 1..MaxPrice
MaxLen == 4
MaxPrice == 3

\* the window argument ranges over 1..MaxWindow
MaxWindow == 3

\* a growth series has 0..MaxSeries entries, each a str or a number in
\* -MaxGrowth..MaxGrowth
MaxSeries == 3
MaxGrowth == 2

\* a series passed by one of two concurrent calls has 0..MaxConcLen entries
MaxConcLen == 2

-----------------------------------------------------------------------------
(* Python values *)

None == [t |-> "none"]
Str(s) == [t |-> "str", s |-> s]
Raise(s) == [t |-> "raise", s |-> s]
NaN == [t |-> "nan"]
Inf == [t |-> "inf"]
NegInf == [t |-> "ninf"]

IsNum(v) == v.t = "num"
IsNone(v) == v.t = "none"
IsStr(v) == v.t = "str"
IsRaise(v) == v.t = "raise"

Abs(k) == IF k < 0 THEN -k ELSE k

RECURSIVE GCD(_, _)
GCD(a, b) == IF b = 0 THEN a ELSE GCD(b, a % b)

\* the number n/d (d # 0), in lowest terms with a positive denominator
Num(n, d) ==
    LET g == GCD(Abs(n), Abs(d))
        s == IF d < 0 THEN -1 ELSE 1
    IN  [t |-> "num", n |-> (s * n) \div g, d |-> (s * d) \div g]

IntVal(k) == Num(k, 1)

IsZero(v) == IsNum(v) /\ v.n = 0

\* Python's binary -, + and / on numbers, str and None.  A propagating
\* exception in an operand propagates; str + str concatenates; every other
\* combination with a non-number raises TypeError; x / 0 is guarded by the
\* callers and raises ZeroDivisionError if it is ever reached.
PySub(a, b) ==
    IF IsRaise(a) THEN a
    ELSE IF IsRaise(b) THEN b
    ELSE IF IsNum(a) /\ IsNum(b) THEN Num(a.n * b.d - b.n * a.d, a.d * b.d)
    ELSE Raise("TypeError")

PyAdd(a, b) ==
    IF IsRaise(a) THEN a
    ELSE IF IsRaise(b) THEN b
    ELSE IF IsNum(a) /\ IsNum(b) THEN Num(a.n * b.d + b.n * a.d, a.d * b.d)
    ELSE IF IsStr(a) /\ IsStr(b) THEN Str(a.s \o b.s)
    ELSE Raise("TypeError")

PyDiv(a, b) ==
    IF IsRaise(a) THEN a
    ELSE IF IsRaise(b) THEN b
    ELSE IF IsNum(a) /\ IsNum(b)
         THEN IF b.n = 0 THEN Raise("ZeroDivisionError")
              ELSE Num(a.n * b.d, a.d * b.n)
    ELSE Raise("TypeError")

-----------------------------------------------------------------------------
(* The financial data bundle *)

Sources == {"income_statement", "balance_sheet", "cash_flow", "market"}

\* a source entry is a mapping (a dict) unless it is a plain value
IsMapping(e) == "t" \notin DOMAIN e

\* extract_value: the first source of preferred_sources that is in
\* financial_data and contains key gives the value; None if there is none.
\* `key in financial_data[src]` raises TypeError when the entry is a number.
RECURSIVE extract_value(_, _, _)
extract_value(fd, key, preferred_sources) ==
    IF preferred_sources = <<>> THEN None
    ELSE LET src == Head(preferred_sources)
         IN  IF src \in DOMAIN fd
             THEN IF ~IsMapping(fd[src]) THEN Raise("TypeError")
                  ELSE IF key \in DOMAIN fd[src] THEN fd[src][key]
                  ELSE extract_value(fd, key, Tail(preferred_sources))
             ELSE extract_value(fd, key, Tail(preferred_sources))

\* `x in (None, 0)`: x == None or x == 0 (a str is equal to neither)
InNoneZero(x) == IsNone(x) \/ IsZero(x)

\* safe_div that tests the denominator against None only
safe_div_zero_unchecked(num, denom) ==
    IF IsRaise(num) THEN num
    ELSE IF IsRaise(denom) THEN denom
    ELSE IF ~IsNone(num) /\ ~IsNone(denom) THEN PyDiv(num, denom)
    ELSE None

\* safe_div that forgets `num is not None`
safe_div_num_unchecked(num, denom) ==
    IF IsRaise(num) THEN num
    ELSE IF IsRaise(denom) THEN denom
    ELSE IF ~InNoneZero(denom) THEN PyDiv(num, denom)
    ELSE None

\* safe_div: num / denom if num is not None and denom not in (None, 0) else None
safe_div(num, denom) ==
    IF IsRaise(num) THEN num
    ELSE IF IsRaise(denom) THEN denom
    ELSE IF ~IsNone(num) /\ ~InNoneZero(denom) THEN PyDiv(num, denom)
    ELSE None

\* sequencing: an exception raised by an earlier statement aborts the call
Then(x, e) == IF IsRaise(x) THEN x ELSE e

IS == <<"income_statement">>
BS == <<"balance_sheet">>
CF == <<"cash_flow">>
MK == <<"market">>
\* the share-count precedence the other way round
IS_before_MK == <<"income_statement", "market">>

MK_IS == <<"market", "income_statement">>
IS_CF == <<"income_statement", "cash_flow">>
IS_MK == <<"income_statement", "market">>

gross_margin(fd) ==
    LET revenue == extract_value(fd, "revenue", IS)
        cogs == extract_value(fd, "cost_of_goods_sold", IS)
    IN  Then(revenue, Then(cogs,
            IF ~IsNone(revenue) /\ ~IsNone(cogs)
            THEN safe_div(PySub(revenue, cogs), revenue)
            ELSE None))

operating_margin(fd) ==
    LET revenue == extract_value(fd, "revenue", IS)
        operating_income == extract_value(fd, "operating_income", IS)
    IN  Then(revenue, Then(operating_income,
            safe_div(operating_income, revenue)))

net_profit_margin(fd) ==
    LET revenue == extract_value(fd, "revenue", IS)
        net_income == extract_value(fd, "net_income", IS)
    IN  Then(revenue, Then(net_income, safe_div(net_income, revenue)))

ebitda_sum(operating_income, depreciation, amortization) ==
    IF ~IsNone(operating_income) /\ ~IsNone(depreciation) /\ ~IsNone(amortization)
    THEN PyAdd(PyAdd(operating_income, depreciation), amortization)
    ELSE None

ebitda(fd) ==
    LET e == extract_value(fd, "ebitda", IS)
        operating_income == extract_value(fd, "operating_income", IS)
        depreciation == extract_value(fd, "depreciation", IS_CF)
        amortization == extract_value(fd, "amortization", IS_CF)
    IN  Then(e,
            IF ~IsNone(e) THEN e
            ELSE Then(operating_income, Then(depreciation, Then(amortization,
                     ebitda_sum(operating_income, depreciation, amortization)))))

debt_to_equity(fd) ==
    LET total_liabilities == extract_value(fd, "total_liabilities", BS)
        shareholders_equity == extract_value(fd, "shareholders_equity", BS)
    IN  Then(total_liabilities, Then(shareholders_equity,
            safe_div(total_liabilities, shareholders_equity)))

current_ratio(fd) ==
    LET current_assets == extract_value(fd, "current_assets", BS)
        current_liabilities == extract_value(fd, "current_liabilities", BS)
    IN  Then(current_assets, Then(current_liabilities,
            safe_div(current_assets, current_liabilities)))

quick_ratio(fd) ==
    LET current_assets == extract_value(fd, "current_assets", BS)
        inventory == extract_value(fd, "inventory", BS)
        current_liabilities == extract_value(fd, "current_liabilities", BS)
    IN  Then(current_assets, Then(inventory, Then(current_liabilities,
            IF ~IsNone(current_assets) /\ ~IsNone(inventory)
               /\ ~IsNone(current_liabilities)
            THEN safe_div(PySub(current_assets, inventory), current_liabilities)
            ELSE None)))

book_value_per_share(fd) ==
    LET shareholders_equity == extract_value(fd, "shareholders_equity", BS)
        shares_outstanding == extract_value(fd, "shares_outstanding", MK_IS)
    IN  Then(shareholders_equity, Then(shares_outstanding,
            safe_div(shareholders_equity, shares_outstanding)))

\* free_cash_flow that tests its inputs by truth value (0 counts as missing)
free_cash_flow_truthy(fd) ==
    LET operating_cash_flow == extract_value(fd, "operating_cash_flow", CF)
        capex == extract_value(fd, "capital_expenditures", CF)
    IN  Then(operating_cash_flow, Then(capex,
            IF ~InNoneZero(operating_cash_flow) /\ ~InNoneZero(capex)
            THEN PySub(operating_cash_flow, capex)
            ELSE None))

free_cash_flow(fd) ==
    LET operating_cash_flow == extract_value(fd, "operating_cash_flow", CF)
        capex == extract_value(fd, "capital_expenditures", CF)
    IN  Then(operating_cash_flow, Then(capex,
            IF ~IsNone(operating_cash_flow) /\ ~IsNone(capex)
            THEN PySub(operating_cash_flow, capex)
            ELSE None))

cash_flow_margin(fd) ==
    LET operating_cash_flow == extract_value(fd, "operating_cash_flow", CF)
        revenue == extract_value(fd, "revenue", IS)
    IN  Then(operating_cash_flow, Then(revenue,
            safe_div(operating_cash_flow, revenue)))

roe(fd) ==
    LET net_income == extract_value(fd, "net_income", IS)
        shareholders_equity == extract_value(fd, "shareholders_equity", BS)
    IN  Then(net_income, Then(shareholders_equity,
            safe_div(net_income, shareholders_equity)))

roa(fd) ==
    LET net_income == extract_value(fd, "net_income", IS)
        total_assets == extract_value(fd, "total_assets", BS)
    IN  Then(net_income, Then(total_assets, safe_div(net_income, total_assets)))

pe_ratio(fd) ==
    LET price == extract_value(fd, "price", MK)
        net_income == extract_value(fd, "net_income", IS)
        shares_outstanding == extract_value(fd, "shares_outstanding", MK_IS)
        eps == safe_div(net_income, shares_outstanding)
    IN  Then(price, Then(net_income, Then(shares_outstanding, Then(eps,
            IF ~InNoneZero(eps) THEN safe_div(price, eps) ELSE None))))

pb_ratio(fd) ==
    LET price == extract_value(fd, "price", MK)
        shareholders_equity == extract_value(fd, "shareholders_equity", BS)
        shares_outstanding == extract_value(fd, "shares_outstanding", MK_IS)
        bvps == safe_div(shareholders_equity, shares_outstanding)
    IN  Then(price, Then(shareholders_equity, Then(shares_outstanding, Then(bvps,
            IF ~InNoneZero(bvps) THEN safe_div(price, bvps) ELSE None))))

dividend_yield(fd) ==
    LET dividends_per_share == extract_value(fd, "dividends_per_share", IS_MK)
        price == extract_value(fd, "price", MK)
    IN  Then(dividends_per_share, Then(price,
            safe_div(dividends_per_share, price)))

Supported ==
    {"gross_margin", "operating_margin", "net_profit_margin", "ebitda",
     "debt_to_equity", "current_ratio", "quick_ratio", "book_value_per_share",
     "free_cash_flow", "cash_flow_margin", "roe", "roa", "pe_ratio",
     "pb_ratio", "dividend_yield"}

\* the value the if/elif chain assigns for a supported indicator
metric_value(fd, ind) ==
    CASE ind = "gross_margin" -> gross_margin(fd)
      [] ind = "operating_margin" -> operating_margin(fd)
      [] ind = "net_profit_margin" -> net_profit_margin(fd)
      [] ind = "ebitda" -> ebitda(fd)
      [] ind = "debt_to_equity" -> debt_to_equity(fd)
      [] ind = "current_ratio" -> current_ratio(fd)
      [] ind = "quick_ratio" -> quick_ratio(fd)
      [] ind = "book_value_per_share" -> book_value_per_share(fd)
      [] ind = "free_cash_flow" -> free_cash_flow(fd)
      [] ind = "cash_flow_margin" -> cash_flow_margin(fd)
      [] ind = "roe" -> roe(fd)
      [] ind = "roa" -> roa(fd)
      [] ind = "pe_ratio" -> pe_ratio(fd)
      [] ind = "pb_ratio" -> pb_ratio(fd)
      [] ind = "dividend_yield" -> dividend_yield(fd)

\* an exception that leaves the function, as seen by the caller
Escaped(e) == [exception |-> e.s]

\* the unknown-name branch worded as calculate_technical_indicators words it
calculate_financial_metric_named_error(fd, ind) ==
    IF ind \in Supported
    THEN LET value == metric_value(fd, ind)
         IN  IF IsRaise(value) THEN Escaped(value)
             ELSE [indicator |-> ind, value |-> value]
    ELSE [indicator |-> ind, value |-> None,
          error |-> "Unknown indicator: " \o ind]

calculate_financial_metric(fd, ind) ==
    IF ind \in Supported
    THEN LET value == metric_value(fd, ind)
         IN  IF IsRaise(value) THEN Escaped(value)
             ELSE [indicator |-> ind, value |-> value]
    ELSE [indicator |-> ind, value |-> None, error |-> "Unknown indicator"]

\* the tool returns what calculate_financial_metric returns
mcp_calculate_financial_metrics(fd, ind) == calculate_financial_metric(fd, ind)

-----------------------------------------------------------------------------
(* Float arithmetic of the pandas Series operations (IEEE 754: no exception, *)
(* x/0 is +-inf, 0/0 is nan, nan is absorbing).  The sign of a zero is not   *)
(* kept: no result below depends on it.                                      *)

IsNaN(v) == v.t = "nan"
Sign(v) == CASE v.t = "inf" -> 1
             [] v.t = "ninf" -> -1
             [] v.t = "num" -> IF v.n > 0 THEN 1 ELSE IF v.n < 0 THEN -1 ELSE 0
Signed(k) == IF k > 0 THEN Inf ELSE IF k < 0 THEN NegInf ELSE NaN

FNeg(a) ==
    CASE a.t = "nan" -> NaN
      [] a.t = "inf" -> NegInf
      [] a.t = "ninf" -> Inf
      [] a.t = "num" -> Num(-a.n, a.d)

FAdd(a, b) ==
    IF IsNaN(a) \/ IsNaN(b) THEN NaN
    ELSE IF IsNum(a) /\ IsNum(b) THEN Num(a.n * b.d + b.n * a.d, a.d * b.d)
    ELSE IF IsNum(a) THEN b
    ELSE IF IsNum(b) THEN a
    ELSE IF a = b THEN a ELSE NaN

FSub(a, b) == FAdd(a, FNeg(b))

FDiv(a, b) ==
    IF IsNaN(a) \/ IsNaN(b) THEN NaN
    ELSE IF IsNum(a) /\ IsNum(b)
         THEN IF b.n = 0 THEN Signed(Sign(a)) ELSE Num(a.n * b.d, a.d * b.n)
    ELSE IF IsNum(a) THEN IntVal(0)
    ELSE IF IsNum(b) THEN Signed(Sign(a) * (IF Sign(b) < 0 THEN -1 ELSE 1))
    ELSE NaN

\* a > 0 and a < 0 on floats: False for nan
FPos(a) == ~IsNaN(a) /\ Sign(a) > 0
FNegative(a) == ~IsNaN(a) /\ Sign(a) < 0

RECURSIVE FSum(_, _, _)
\* s[lo] + ... + s[hi]
FSum(s, lo, hi) == IF lo > hi THEN IntVal(0) ELSE FAdd(s[lo], FSum(s, lo + 1, hi))

\* a rolling mean that yields the mean of the entries so far while fewer
\* than w exist (min_periods = 1)
rolling_mean_partial(s, w) ==
    [i \in 1..Len(s) |->
        LET lo == IF i < w THEN 1 ELSE i - w + 1
        IN  IF \E j \in lo..i : IsNaN(s[j]) THEN NaN
            ELSE FDiv(FSum(s, lo, i), IntVal(i - lo + 1))]

\* Series.rolling(window=w).mean(): entry i (1-based) is the mean of the w
\* entries ending at i, and nan while fewer than w entries exist or when one
\* of them is nan (min_periods defaults to the window)
rolling_mean(s, w) ==
    [i \in 1..Len(s) |->
        IF i < w \/ \E j \in (i - w + 1)..i : IsNaN(s[j]) THEN NaN
        ELSE FDiv(FSum(s, i - w + 1, i), IntVal(w))]

\* Series.diff(): nan first, then s[i] - s[i-1]
diff(s) == [i \in 1..Len(s) |-> IF i = 1 THEN NaN ELSE FSub(s[i], s[i - 1])]

\* delta.where(delta > 0, 0) and delta.where(delta < 0, 0): the entry where
\* the condition holds, 0 elsewhere (the condition is False on nan)
where_pos(s) == [i \in 1..Len(s) |-> IF FPos(s[i]) THEN s[i] ELSE IntVal(0)]
where_neg(s) == [i \in 1..Len(s) |-> IF FNegative(s[i]) THEN s[i] ELSE IntVal(0)]

rsi_series(prices, w) ==
    LET delta == diff(prices)
        gain == rolling_mean(where_pos(delta), w)
        neg == where_neg(delta)
        loss == rolling_mean([i \in 1..Len(neg) |-> FNeg(neg[i])], w)
        rs == [i \in 1..Len(prices) |-> FDiv(gain[i], loss[i])]
    IN  [i \in 1..Len(prices) |->
            FSub(IntVal(100), FDiv(IntVal(100), FAdd(IntVal(1), rs[i])))]

FMul(a, b) ==
    IF IsNaN(a) \/ IsNaN(b) THEN NaN
    ELSE IF IsNum(a) /\ IsNum(b) THEN Num(a.n * b.n, a.d * b.d)
    ELSE Signed(Sign(a) * Sign(b))

\* Series.ewm(span=span, adjust=False).mean(): y[0] = x[0] and
\* y[i] = (1 - alpha) * y[i-1] + alpha * x[i] with alpha = 2 / (span + 1)
RECURSIVE ewm_mean_at(_, _, _)
ewm_mean_at(s, span, i) ==
    IF i = 1 THEN s[1]
    ELSE FAdd(FMul(Num(span - 1, span + 1), ewm_mean_at(s, span, i - 1)),
              FMul(Num(2, span + 1), s[i]))

ewm_mean(s, span) == [i \in 1..Len(s) |-> ewm_mean_at(s, span, i)]

\* a finite float whose magnitude is not kept: the entries of macd and of
\* macd_signal (spans 12, 26 and 9) are sums of products of the prices with
\* powers of 11/13, 25/27 and 4/5, defined at every index
Finite == [t |-> "finite"]

macd_series(prices) == [i \in 1..Len(prices) |-> Finite]

\* Series.pct_change(): nan first, then s[i] / s[i-1] - 1
pct_change(s) ==
    [i \in 1..Len(s) |->
        IF i = 1 THEN NaN ELSE FSub(FDiv(s[i], s[i - 1]), IntVal(1))]

RECURSIVE SumSq(_, _, _, _)
\* (s[lo] - m)^2 + ... + (s[hi] - m)^2
SumSq(s, m, lo, hi) ==
    IF lo > hi THEN IntVal(0)
    ELSE FAdd(FMul(FSub(s[lo], m), FSub(s[lo], m)), SumSq(s, m, lo + 1, hi))

\* the square root of the non-negative number v
Sqrt(v) == IF IsNum(v) THEN [t |-> "sqrt", n |-> v.n, d |-> v.d] ELSE NaN

\* Series.rolling(window=w).std(): the sample standard deviation (ddof = 1)
\* of the w entries ending at i; nan while fewer than w entries exist, when
\* one of them is nan, and when w = 1 (no degree of freedom)
rolling_std(s, w) ==
    [i \in 1..Len(s) |->
        IF i < w \/ w < 2 \/ \E j \in (i - w + 1)..i : IsNaN(s[j]) THEN NaN
        ELSE LET m == FDiv(FSum(s, i - w + 1, i), IntVal(w))
             IN  Sqrt(FDiv(SumSq(s, m, i - w + 1, i), IntVal(w - 1)))]

\* the dispatch with the moving average computed before the kind is looked
\* at, so that an unknown kind leaves it in the result next to the error
calculate_technical_indicators_partial(pd, ind, w) ==
    LET prices == [i \in 1..Len(pd) |-> IntVal(pd[i])]
    IN  CASE ind = "sma" -> [sma |-> rolling_mean(prices, w)]
          [] ind = "ema" -> [ema |-> ewm_mean(prices, w)]
          [] ind = "rsi" -> [rsi |-> rsi_series(prices, w)]
          [] ind = "macd" -> [macd |-> macd_series(prices),
                              macd_signal |-> macd_series(prices)]
          [] ind = "volatility" ->
                [volatility |-> rolling_std(pct_change(prices), w)]
          [] OTHER -> [sma |-> rolling_mean(prices, w),
                       error |-> "Unknown indicator: " \o ind]

calculate_technical_indicators(pd, ind, w) ==
    LET prices == [i \in 1..Len(pd) |-> IntVal(pd[i])]
    IN  CASE ind = "sma" -> [sma |-> rolling_mean(prices, w)]
          [] ind = "ema" -> [ema |-> ewm_mean(prices, w)]
          [] ind = "rsi" -> [rsi |-> rsi_series(prices, w)]
          [] ind = "macd" -> [macd |-> macd_series(prices),
                              macd_signal |-> macd_series(prices)]
          [] ind = "volatility" ->
                [volatility |-> rolling_std(pct_change(prices), w)]
          [] OTHER -> [error |-> "Unknown indicator: " \o ind]

\* the tool returns what calculate_technical_indicators returns
mcp_calculate_technical_indicators(pd, ind, w) ==
    calculate_technical_indicators(pd, ind, w)

-----------------------------------------------------------------------------
(* calculate_growth_rates *)

\* `x != 0`: a str is different from 0
NotZero(x) == ~IsZero(x)

\* abs(x): TypeError on a str
PyAbs(x) == IF IsNum(x) THEN Num(Abs(x.n), x.d) ELSE Raise("TypeError")

\* the loop body dividing by prev instead of abs(prev)
period_growth_signed(prev, curr) ==
    IF NotZero(prev) THEN PyDiv(PySub(curr, prev), prev) ELSE None

\* one pass of the loop body: (curr - prev) / abs(prev) if prev != 0 else None
period_growth(prev, curr) ==
    IF NotZero(prev) THEN PyDiv(PySub(curr, prev), PyAbs(prev)) ELSE None

\* base ** (1 / k) - 1 for a number base and k >= 1.  1/1 is 1.0 and the
\* power is the base; for k > 1 the exponent is no integer, and the power of
\* a negative float is then a complex number (Python 3), of a non-negative
\* one the real k-th root.  The root is kept as written:
\*   [t |-> "root", n, d, k]     the real (n/d)^(1/k) - 1
\*   [t |-> "complex", n, d, k]  the complex principal value of the same
root_minus_one(base, k) ==
    IF IsRaise(base) THEN base
    ELSE IF k = 1 THEN PySub(base, IntVal(1))
    ELSE IF base.n >= 0 THEN [t |-> "root", n |-> base.n, d |-> base.d, k |-> k]
    ELSE [t |-> "complex", n |-> base.n, d |-> base.d, k |-> k]

\* the annualized rate with the number of entries, not of periods, as root
annualized_growth_per_entry(s) ==
    IF Len(s) > 1 /\ NotZero(s[1])
    THEN root_minus_one(PyDiv(s[Len(s)], s[1]), Len(s))
    ELSE None

\* lines 22-25: the annualized rate of the whole series
annualized_growth(s) ==
    IF Len(s) > 1 /\ NotZero(s[1])
    THEN root_minus_one(PyDiv(s[Len(s)], s[1]), Len(s) - 1)
    ELSE None

\* str(e) of the exception the try block catches
ErrorText(e) == "unsupported operand type(s)"

calculate_growth_rates(s) ==
    LET growth_rates == [i \in 1..(Len(s) - 1) |-> period_growth(s[i], s[i + 1])]
        annualized == annualized_growth(s)
    IN  IF \E i \in 1..(Len(s) - 1) : IsRaise(growth_rates[i])
        THEN [error |-> ErrorText(growth_rates[
                  CHOOSE i \in 1..(Len(s) - 1) : IsRaise(growth_rates[i])])]
        ELSE IF IsRaise(annualized) THEN [error |-> ErrorText(annualized)]
        ELSE [annualized_growth_rate |-> annualized,
              period_growth_rates |-> growth_rates]

\* the tool returns what calculate_growth_rates returns
mcp_calculate_growth_rates(s) == calculate_growth_rates(s)

-----------------------------------------------------------------------------
(* calculate_trading_opportunities and the chart that shows its signals *)

\* Series.shift(1): nan first, then the entry before
shift(s) == [i \in 1..Len(s) |-> IF i = 1 THEN NaN ELSE s[i - 1]]

\* a > b, a < b, a <= b, a >= b on floats: False when one of them is nan
Cmp(a, b) == a.n * b.d - b.n * a.d
FGt(a, b) == IsNum(a) /\ IsNum(b) /\ Cmp(a, b) > 0
FLt(a, b) == IsNum(a) /\ IsNum(b) /\ Cmp(a, b) < 0
FLe(a, b) == IsNum(a) /\ IsNum(b) /\ Cmp(a, b) <= 0
FGe(a, b) == IsNum(a) /\ IsNum(b) /\ Cmp(a, b) >= 0

\* the signal column with 1 at every row where the short average is above
\* the long one, -1 where it is below (no test of the row before)
signal_column_position(short_ma, long_ma, prev_short, prev_long) ==
    [i \in 1..Len(short_ma) |->
        IF FLt(short_ma[i], long_ma[i]) THEN -1
        ELSE IF FGt(short_ma[i], long_ma[i]) THEN 1
        ELSE 0]

\* lines 85-87: 0 everywhere, then 1 on the rows of the first mask, then -1
\* on the rows of the second
signal_column(short_ma, long_ma, prev_short, prev_long) ==
    [i \in 1..Len(short_ma) |->
        IF FLt(short_ma[i], long_ma[i]) /\ FGe(prev_short[i], prev_long[i]) THEN -1
        ELSE IF FGt(short_ma[i], long_ma[i]) /\ FLe(prev_short[i], prev_long[i]) THEN 1
        ELSE 0]

\* the columns of the returned frame
calculate_trading_opportunities(close, short_window, long_window_) ==
    LET prices == [i \in 1..Len(close) |-> IntVal(close[i])]
        short_ma == rolling_mean(prices, short_window)
        long_ma == rolling_mean(prices, long_window_)
        prev_short == shift(short_ma)
        prev_long == shift(long_ma)
    IN  [close |-> prices, short_ma |-> short_ma, long_ma |-> long_ma,
         prev_short |-> prev_short, prev_long |-> prev_long,
         signal |-> signal_column(short_ma, long_ma, prev_short, prev_long)]

\* what plot_trading_opportunities draws: the frame, the rows marked as buy
\* signals and the rows marked as sell signals (the image is not modelled)
plot_trading_opportunities(close, short_window, long_window_) ==
    LET prices_df == calculate_trading_opportunities(close, short_window, long_window_)
    IN  [prices_df |-> prices_df,
         buy_signals |-> {i \in 1..Len(close) : prices_df.signal[i] = 1},
         sell_signals |-> {i \in 1..Len(close) : prices_df.signal[i] = -1}]

-----------------------------------------------------------------------------
(* The calls the host makes *)

Absent == [t |-> "absent"]

\* what a field of a source may hold: nothing, a number, None or a str
Cells == {Absent, None, Str("x")} \cup {IntVal(k) : k \in 0..MaxNum}

F(src, key) == <<src, key>>

\* the (source, field) places an indicator's recipe reads
Slots(ind) ==
    CASE ind = "gross_margin" ->
            {F("income_statement", "revenue"), F("income_statement", "cost_of_goods_sold")}
      [] ind = "operating_margin" ->
            {F("income_statement", "revenue"), F("income_statement", "operating_income")}
      [] ind = "net_profit_margin" ->
            {F("income_statement", "revenue"), F("income_statement", "net_income")}
      [] ind = "ebitda" ->
            {F("income_statement", "ebitda"), F("income_statement", "operating_income"),
             F("income_statement", "depreciation"), F("cash_flow", "depreciation"),
             F("income_statement", "amortization"), F("cash_flow", "amortization")}
      [] ind = "debt_to_equity" ->
            {F("balance_sheet", "total_liabilities"), F("balance_sheet", "shareholders_equity")}
      [] ind = "current_ratio" ->
            {F("balance_sheet", "current_assets"), F("balance_sheet", "current_liabilities")}
      [] ind = "quick_ratio" ->
            {F("balance_sheet", "current_assets"), F("balance_sheet", "inventory"),
             F("balance_sheet", "current_liabilities")}
      [] ind = "book_value_per_share" ->
            {F("balance_sheet", "shareholders_equity"), F("market", "shares_outstanding"),
             F("income_statement", "shares_outstanding")}
      [] ind = "free_cash_flow" ->
            {F("cash_flow", "operating_cash_flow"), F("cash_flow", "capital_expenditures")}
      [] ind = "cash_flow_margin" ->
            {F("cash_flow", "operating_cash_flow"), F("income_statement", "revenue")}
      [] ind = "roe" ->
            {F("income_statement", "net_income"), F("balance_sheet", "shareholders_equity")}
      [] ind = "roa" ->
            {F("income_statement", "net_income"), F("balance_sheet", "total_assets")}
      [] ind = "pe_ratio" ->
            {F("market", "price"), F("income_statement", "net_income"),
             F("market", "shares_outstanding"), F("income_statement", "shares_outstanding")}
      [] ind = "pb_ratio" ->
            {F("market", "price"), F("balance_sheet", "shareholders_equity"),
             F("market", "shares_outstanding"), F("income_statement", "shares_outstanding")}
      [] ind = "dividend_yield" ->
            {F("income_statement", "dividends_per_share"), F("market", "dividends_per_share"),
             F("market", "price")}
      [] OTHER ->
            {F("income_statement", "revenue"), F("income_statement", "cost_of_goods_sold")}

\* the bundle holding a[s] at every place s with a[s] # Absent; the entry of
\* source bad (if any) is the number 1 instead of a mapping
Bundle(a, bad) ==
    LET held(src) == {s \in DOMAIN a : s[1] = src /\ a[s] # Absent}
        srcs == {src \in Sources : held(src) # {} \/ src = bad}
    IN  [src \in srcs |->
            IF src = bad THEN IntVal(1)
            ELSE [key \in {s[2] : s \in held(src)} |-> a[F(src, key)]]]

Unknown == {"unknown_xyz"}
Kinds == {"sma", "ema", "rsi", "macd", "volatility", "unknown"}

NoData == [none |-> TRUE]
NoResult == [pending |-> TRUE]

NoCalls == <<>>

Init ==
    /\ op = "idle"
    /\ financial_data = NoData
    /\ indicator = ""
    /\ price_data = <<>>
    /\ window = 0
    /\ long_window = 0
    /\ series = <<>>
    /\ result = NoResult
    /\ calls = NoCalls

\* the host calls the tool mcp_calculate_financial_metrics
CallFinancialMetrics ==
    /\ op = "idle"
    /\ \E ind \in Supported \cup Unknown :
         \E a \in [Slots(ind) -> Cells] :
           \E bad \in {"-"} \cup {s[1] : s \in Slots(ind)} :
             /\ indicator' = ind
             /\ financial_data' = Bundle(a, bad)
             /\ result' = mcp_calculate_financial_metrics(Bundle(a, bad), ind)
    /\ op' = "mcp_calculate_financial_metrics"
    /\ UNCHANGED <<price_data, window, long_window, series, calls>>

PriceSeries == UNION {[1..n -> 1..MaxPrice] : n \in 1..MaxLen}

\* the host calls the tool mcp_calculate_technical_indicators
CallTechnicalIndicators ==
    /\ op = "idle"
    /\ \E pd \in PriceSeries, ind \in Kinds, w \in 1..MaxWindow :
         /\ price_data' = pd
         /\ indicator' = ind
         /\ window' = w
         /\ result' = mcp_calculate_technical_indicators(pd, ind, w)
    /\ op' = "mcp_calculate_technical_indicators"
    /\ UNCHANGED <<financial_data, long_window, series, calls>>

\* the host calls the tool mcp_plot_trading_opportunities
CallPlotTradingOpportunities ==
    /\ op = "idle"
    /\ \E pd \in PriceSeries, sw \in 1..MaxWindow, lw \in 1..MaxWindow :
         /\ price_data' = pd
         /\ window' = sw
         /\ long_window' = lw
         /\ result' = plot_trading_opportunities(pd, sw, lw)
    /\ op' = "mcp_plot_trading_opportunities"
    /\ UNCHANGED <<financial_data, indicator, series, calls>>

\* a growth series: numbers, with a str among them for the invalid input
GrowthValues == {IntVal(k) : k \in (-MaxGrowth)..MaxGrowth} \cup {Str("x")}
GrowthSeries == UNION {[1..n -> GrowthValues] : n \in 0..MaxSeries}

\* the host calls the tool mcp_calculate_growth_rates
CallGrowthRates ==
    /\ op = "idle"
    /\ \E s \in GrowthSeries :
         /\ series' = s
         /\ result' = mcp_calculate_growth_rates(s)
    /\ op' = "mcp_calculate_growth_rates"
    /\ UNCHANGED <<financial_data, indicator, price_data, window, long_window, calls>>

\* the host takes the result; the call leaves nothing behind
Return ==
    /\ op # "idle"
    /\ op' = "idle"
    /\ financial_data' = NoData
    /\ indicator' = ""
    /\ price_data' = <<>>
    /\ window' = 0
    /\ long_window' = 0
    /\ series' = <<>>
    /\ result' = NoResult
    /\ UNCHANGED calls

Next ==
    \/ CallFinancialMetrics
    \/ CallTechnicalIndicators
    \/ CallGrowthRates
    \/ CallPlotTradingOpportunities
    \/ Return

Spec == Init /\ [][Next]_vars

-----------------------------------------------------------------------------
(* Concurrent calls.  The host may have two tool calls in progress at once. *)
(* Each call runs in its own frame: its arguments and the local names of    *)
(* the function.  calculate_growth_rates runs statement by statement (one   *)
(* pass of its loop per step); the two other computations are one           *)
(* expression over their arguments.                                         *)

Callers == {"a", "b"}

ConcValues == {IntVal(-2), IntVal(0), IntVal(1), Str("x")}
ConcSeries == UNION {[1..n -> ConcValues] : n \in 0..MaxConcLen}
ConcPrices == UNION {[1..n -> 1..2] : n \in 1..MaxConcLen}
ConcCells == {Absent, IntVal(0), IntVal(2), Str("x")}

\* the arguments of a call
ConcArgs ==
    {[fn |-> "calculate_growth_rates", series |-> q] : q \in ConcSeries}
    \cup {[fn |-> "calculate_financial_metric", indicator |-> "current_ratio",
           financial_data |-> Bundle(a, "-")] :
             a \in [Slots("current_ratio") -> ConcCells]}
    \cup {[fn |-> "calculate_technical_indicators", price_data |-> q,
           indicator |-> k, window |-> 2] :
             q \in ConcPrices, k \in {"sma", "rsi"}}

NoArg == [fn |-> "none"]

IdleFrame ==
    [pc |-> "idle", arg |-> NoArg, i |-> 0, growth_rates |-> <<>>,
     result |-> NoResult]

\* growth_rates.append(growth) on a list that all calls in progress share
append_growth_shared(cs, c, growth) ==
    [d \in DOMAIN cs |->
        IF cs[d].pc = "loop" /\ cs[d].arg.fn = "calculate_growth_rates"
        THEN [cs[d] EXCEPT !.growth_rates = Append(@, growth)]
        ELSE cs[d]]

\* growth_rates.append(growth): the list is the one the call made at line 12
append_growth(cs, c, growth) ==
    [cs EXCEPT ![c].growth_rates = Append(@, growth)]

InitConc ==
    /\ op = "idle"
    /\ financial_data = NoData
    /\ indicator = ""
    /\ price_data = <<>>
    /\ window = 0
    /\ long_window = 0
    /\ series = <<>>
    /\ result = NoResult
    /\ calls = [c \in Callers |-> IdleFrame]

Sequential == <<op, financial_data, indicator, price_data, window, long_window,
                series, result>>

\* the host starts a call: the arguments are bound, growth_rates = [] (line 12)
Begin(c) ==
    /\ calls[c].pc = "idle"
    /\ \E arg \in ConcArgs :
         calls' = [calls EXCEPT ![c] =
                     [pc |-> IF arg.fn = "calculate_growth_rates" THEN "loop" ELSE "body",
                      arg |-> arg, i |-> 1, growth_rates |-> <<>>,
                      result |-> NoResult]]
    /\ UNCHANGED Sequential

\* one pass of the loop of calculate_growth_rates (lines 14-21); an exception
\* is caught and ends the call with the error result (lines 26-27)
LoopStep(c) ==
    /\ calls[c].pc = "loop"
    /\ calls[c].i < Len(calls[c].arg.series)
    /\ LET q == calls[c].arg.series
           growth == period_growth(q[calls[c].i], q[calls[c].i + 1])
       IN  IF IsRaise(growth)
           THEN calls' = [calls EXCEPT ![c].pc = "done",
                                       ![c].result = [error |-> ErrorText(growth)]]
           ELSE calls' = [append_growth(calls, c, growth) EXCEPT ![c].i = @ + 1]
    /\ UNCHANGED Sequential

\* after the loop: the annualized rate and the return (lines 22-28)
Finish(c) ==
    /\ calls[c].pc = "loop"
    /\ calls[c].i >= Len(calls[c].arg.series)
    /\ LET annualized == annualized_growth(calls[c].arg.series)
       IN  calls' = [calls EXCEPT
                ![c].pc = "done",
                ![c].result =
                    IF IsRaise(annualized) THEN [error |-> ErrorText(annualized)]
                    ELSE [annualized_growth_rate |-> annualized,
                          period_growth_rates |-> calls[c].growth_rates]]
    /\ UNCHANGED Sequential

\* calculate_financial_metric or calculate_technical_indicators runs on the
\* arguments of the call
Body(c) ==
    /\ calls[c].pc = "body"
    /\ LET arg == calls[c].arg
       IN  calls' = [calls EXCEPT
                ![c].pc = "done",
                ![c].result =
                    IF arg.fn = "calculate_financial_metric"
                    THEN calculate_financial_metric(arg.financial_data, arg.indicator)
                    ELSE calculate_technical_indicators(arg.price_data, arg.indicator,
                                                        arg.window)]
    /\ UNCHANGED Sequential

\* the host takes the result of the call
Collect(c) ==
    /\ calls[c].pc = "done"
    /\ calls' = [calls EXCEPT ![c] = IdleFrame]
    /\ UNCHANGED Sequential

NextConc ==
    \E c \in Callers :
        \/ Begin(c)
        \/ LoopStep(c)
        \/ Finish(c)
        \/ Body(c)
        \/ Collect(c)

SpecConc == InitConc /\ [][NextConc]_vars

-----------------------------------------------------------------------------
(* Vocabulary of the properties *)

\* a call of calculate_financial_metric / calculate_technical_indicators (made
\* through its tool) has returned `result`
MetricOp == op = "mcp_calculate_financial_metrics"
TechOp == op = "mcp_calculate_technical_indicators"

\* a bundle of the data model: every source entry a mapping, every field a
\* number (or null)
WellFormed(fd) ==
    \A src \in DOMAIN fd :
        /\ IsMapping(fd[src])
        /\ \A key \in DOMAIN fd[src] : fd[src][key].t \in {"num", "none"}

\* key is in none of the sources srcs of fd
Missing(fd, key, srcs) ==
    \A i \in 1..Len(srcs) : srcs[i] \notin DOMAIN fd \/ key \notin DOMAIN fd[srcs[i]]

\* key is a number in the first of the sources srcs that holds it
Present(fd, key, srcs) ==
    \E i \in 1..Len(srcs) :
        /\ srcs[i] \in DOMAIN fd /\ key \in DOMAIN fd[srcs[i]]
        /\ IsNum(fd[srcs[i]][key])
        /\ \A j \in 1..(i - 1) : srcs[j] \notin DOMAIN fd \/ key \notin DOMAIN fd[srcs[j]]

\* the integer a present field holds (the bundles drawn hold integers)
Held(fd, key, srcs) ==
    LET i == CHOOSE i \in 1..Len(srcs) :
                 srcs[i] \in DOMAIN fd /\ key \in DOMAIN fd[srcs[i]]
                 /\ \A j \in 1..(i - 1) :
                        srcs[j] \notin DOMAIN fd \/ key \notin DOMAIN fd[srcs[j]]
    IN  fd[srcs[i]][key].n

NonZero(fd, key, srcs) == Present(fd, key, srcs) /\ Held(fd, key, srcs) # 0

\* the field is null or zero: missing, None, or the number 0
NullOrZero(fd, key, srcs) == ~NonZero(fd, key, srcs)

\* the inputs of each indicator and their source precedence (specification
\* table of the metric resolver); ebitda is apart: its fallback terms are
\* needed only without the ebitda field
Inputs(ind) ==
    CASE ind = "gross_margin" ->
            {<<"revenue", <<"income_statement">> >>,
             <<"cost_of_goods_sold", <<"income_statement">> >>}
      [] ind = "operating_margin" ->
            {<<"revenue", <<"income_statement">> >>,
             <<"operating_income", <<"income_statement">> >>}
      [] ind = "net_profit_margin" ->
            {<<"revenue", <<"income_statement">> >>,
             <<"net_income", <<"income_statement">> >>}
      [] ind = "ebitda" ->
            {<<"operating_income", <<"income_statement">> >>,
             <<"depreciation", <<"income_statement", "cash_flow">> >>,
             <<"amortization", <<"income_statement", "cash_flow">> >>}
      [] ind = "debt_to_equity" ->
            {<<"total_liabilities", <<"balance_sheet">> >>,
             <<"shareholders_equity", <<"balance_sheet">> >>}
      [] ind = "current_ratio" ->
            {<<"current_assets", <<"balance_sheet">> >>,
             <<"current_liabilities", <<"balance_sheet">> >>}
      [] ind = "quick_ratio" ->
            {<<"current_assets", <<"balance_sheet">> >>,
             <<"inventory", <<"balance_sheet">> >>,
             <<"current_liabilities", <<"balance_sheet">> >>}
      [] ind = "book_value_per_share" ->
            {<<"shareholders_equity", <<"balance_sheet">> >>,
             <<"shares_outstanding", <<"market", "income_statement">> >>}
      [] ind = "free_cash_flow" ->
            {<<"operating_cash_flow", <<"cash_flow">> >>,
             <<"capital_expenditures", <<"cash_flow">> >>}
      [] ind = "cash_flow_margin" ->
            {<<"operating_cash_flow", <<"cash_flow">> >>,
             <<"revenue", <<"income_statement">> >>}
      [] ind = "roe" ->
            {<<"net_income", <<"income_statement">> >>,
             <<"shareholders_equity", <<"balance_sheet">> >>}
      [] ind = "roa" ->
            {<<"net_income", <<"income_statement">> >>,
             <<"total_assets", <<"balance_sheet">> >>}
      [] ind = "pe_ratio" ->
            {<<"price", <<"market">> >>,
             <<"net_income", <<"income_statement">> >>,
             <<"shares_outstanding", <<"market", "income_statement">> >>}
      [] ind = "pb_ratio" ->
            {<<"price", <<"market">> >>,
             <<"shareholders_equity", <<"balance_sheet">> >>,
             <<"shares_outstanding", <<"market", "income_statement">> >>}
      [] ind = "dividend_yield" ->
            {<<"dividends_per_share", <<"income_statement", "market">> >>,
             <<"price", <<"market">> >>}

MissingRequired(fd, ind) ==
    /\ ind = "ebitda" => Missing(fd, "ebitda", <<"income_statement">>)
    /\ \E r \in Inputs(ind) : Missing(fd, r[1], r[2])

AllPresent(fd, ind) ==
    \/ ind = "ebitda" /\ Present(fd, "ebitda", <<"income_statement">>)
    \/ /\ ind = "ebitda" => Missing(fd, "ebitda", <<"income_statement">>)
       /\ \A r \in Inputs(ind) : Present(fd, r[1], r[2])

\* the result {indicator: ind, value: None} with no other key
NullResult(r, ind) == r = [indicator |-> ind, value |-> None]

----------------------------------------------------------------------------
\* C1: for every supported metric and every bundle of the data model, when a
\* field the metric requires is in none of the sources of its precedence
\* list, the result is {indicator, value: null} and has no 'error' key
\* (ebitda requires its fallback terms only when the ebitda field is missing).
Thm_C1_MissingInputGivesNull ==
    (/\ MetricOp /\ indicator \in Supported
     /\ WellFormed(financial_data)
     /\ MissingRequired(financial_data, indicator))
    => NullResult(result, indicator)

\* pe_ratio with net_income and shares_outstanding held and price missing
Wit_C1_MissingInputGivesNull ==
    /\ MetricOp /\ indicator = "pe_ratio"
    /\ WellFormed(financial_data)
    /\ Missing(financial_data, "price", <<"market">>)
    /\ NonZero(financial_data, "net_income", <<"income_statement">>)
    /\ NonZero(financial_data, "shares_outstanding", <<"market", "income_statement">>)
    /\ NullResult(result, indicator)

----------------------------------------------------------------------------
\* the fields a dividing indicator divides by; for pe_ratio and pb_ratio,
\* eps = net_income/shares and bvps = equity/shares are null or zero exactly
\* when one of the two fields is
Denominators(ind) ==
    CASE ind \in {"gross_margin", "operating_margin", "net_profit_margin",
                  "cash_flow_margin"} -> {<<"revenue", <<"income_statement">> >>}
      [] ind \in {"debt_to_equity", "roe"} ->
            {<<"shareholders_equity", <<"balance_sheet">> >>}
      [] ind \in {"current_ratio", "quick_ratio"} ->
            {<<"current_liabilities", <<"balance_sheet">> >>}
      [] ind = "book_value_per_share" ->
            {<<"shares_outstanding", <<"market", "income_statement">> >>}
      [] ind = "roa" -> {<<"total_assets", <<"balance_sheet">> >>}
      [] ind = "pe_ratio" ->
            {<<"shares_outstanding", <<"market", "income_statement">> >>,
             <<"net_income", <<"income_statement">> >>}
      [] ind = "pb_ratio" ->
            {<<"shares_outstanding", <<"market", "income_statement">> >>,
             <<"shareholders_equity", <<"balance_sheet">> >>}
      [] ind = "dividend_yield" -> {<<"price", <<"market">> >>}
      [] OTHER -> {}

\* C2: for every dividing metric and every bundle of the data model, when a
\* denominator (the eps or book value per share included) is null or zero,
\* the result is {indicator, value: null}: no exception, no 'error' key.
Thm_C2_NullOrZeroDenominatorGivesNull ==
    (/\ MetricOp /\ indicator \in Supported
     /\ WellFormed(financial_data)
     /\ \E r \in Denominators(indicator) : NullOrZero(financial_data, r[1], r[2]))
    => NullResult(result, indicator)

\* current_ratio with current_assets non-zero and current_liabilities = 0
Wit_C2_NullOrZeroDenominatorGivesNull ==
    /\ MetricOp /\ indicator = "current_ratio"
    /\ WellFormed(financial_data)
    /\ NonZero(financial_data, "current_assets", <<"balance_sheet">>)
    /\ Present(financial_data, "current_liabilities", <<"balance_sheet">>)
    /\ Held(financial_data, "current_liabilities", <<"balance_sheet">>) = 0
    /\ NullResult(result, indicator)

----------------------------------------------------------------------------
\* C3: for any bundle, an indicator outside the 15 supported names gives
\* exactly {indicator: name, value: null, error: "Unknown indicator"}, and a
\* supported name gives a result without an 'error' key.
Thm_C3_UnknownIndicator ==
    MetricOp =>
        IF indicator \in Supported
        THEN "error" \notin DOMAIN result
        ELSE result = [indicator |-> indicator, value |-> None,
                       error |-> "Unknown indicator"]

Wit_C3_UnknownIndicator ==
    /\ MetricOp /\ indicator = "unknown_xyz"
    /\ ~WellFormed(financial_data)
    /\ result = [indicator |-> "unknown_xyz", value |-> None,
                 error |-> "Unknown indicator"]

----------------------------------------------------------------------------
\* C4: no public operation lets a fault escape as an exception; on a
\* malformed input shape (a source entry that is not a mapping, a field that
\* is not a number) calculate_financial_metric returns a result structure.
Claim_C4_NoExceptionEscapes ==
    op # "idle" => "exception" \notin DOMAIN result

----------------------------------------------------------------------------
\* fd with field key of source src set to v (removed when v = Absent); an
\* entry that is not a mapping is left as it is
SetField(fd, src, key, v) ==
    IF src \in DOMAIN fd /\ ~IsMapping(fd[src]) THEN fd
    ELSE LET keys == IF src \in DOMAIN fd THEN DOMAIN fd[src] ELSE {}
             kept == IF v = Absent THEN keys \ {key} ELSE keys \cup {key}
             entry == [k \in kept |-> IF k = key THEN v ELSE fd[src][k]]
         IN  [s \in DOMAIN fd \cup {src} |-> IF s = src THEN entry ELSE fd[s]]

\* the claimed precedences: <<indicator, field, first source, later source>>
Precedence ==
    {<<"book_value_per_share", "shares_outstanding", "market", "income_statement">>,
     <<"pe_ratio", "shares_outstanding", "market", "income_statement">>,
     <<"pb_ratio", "shares_outstanding", "market", "income_statement">>,
     <<"dividend_yield", "dividends_per_share", "income_statement", "market">>,
     <<"ebitda", "depreciation", "income_statement", "cash_flow">>,
     <<"ebitda", "amortization", "income_statement", "cash_flow">>}

Contains(fd, src, key) ==
    src \in DOMAIN fd /\ IsMapping(fd[src]) /\ key \in DOMAIN fd[src]

\* C5: when the first listed source of a field contains it, that source
\* gives the value, and the result of the call is the same whatever the later
\* source holds for the field (shares_outstanding: market before
\* income_statement; dividends_per_share: income_statement before market;
\* depreciation, amortization: income_statement before cash_flow).
Thm_C5_FirstSourceWins ==
    MetricOp =>
        \A p \in Precedence :
            (indicator = p[1] /\ Contains(financial_data, p[3], p[2])) =>
                /\ extract_value(financial_data, p[2], <<p[3], p[4]>>)
                       = financial_data[p[3]][p[2]]
                /\ \A v \in Cells :
                       calculate_financial_metric(
                           SetField(financial_data, p[4], p[2], v), indicator) = result

\* book_value_per_share = equity / market shares with both sources holding
\* different share counts
Wit_C5_FirstSourceWins ==
    /\ MetricOp /\ indicator = "book_value_per_share"
    /\ WellFormed(financial_data)
    /\ Contains(financial_data, "market", "shares_outstanding")
    /\ Contains(financial_data, "income_statement", "shares_outstanding")
    /\ financial_data["market"]["shares_outstanding"] = IntVal(2)
    /\ financial_data["income_statement"]["shares_outstanding"] = IntVal(1)
    /\ result = [indicator |-> indicator, value |-> IntVal(1)]

----------------------------------------------------------------------------
\* the integer held by input key of the indicator
In(fd, ind, key) ==
    LET r == CHOOSE r \in Inputs(ind) : r[1] = key IN Held(fd, key, r[2])

\* the formula of the specification table as a fraction <<numerator,
\* denominator>> of integers
Formula(fd, ind) ==
    CASE ind = "gross_margin" ->
            <<In(fd, ind, "revenue") - In(fd, ind, "cost_of_goods_sold"),
              In(fd, ind, "revenue")>>
      [] ind = "operating_margin" ->
            <<In(fd, ind, "operating_income"), In(fd, ind, "revenue")>>
      [] ind = "net_profit_margin" ->
            <<In(fd, ind, "net_income"), In(fd, ind, "revenue")>>
      [] ind = "ebitda" ->
            IF Present(fd, "ebitda", <<"income_statement">>)
            THEN <<Held(fd, "ebitda", <<"income_statement">>), 1>>
            ELSE <<In(fd, ind, "operating_income") + In(fd, ind, "depreciation")
                     + In(fd, ind, "amortization"), 1>>
      [] ind = "debt_to_equity" ->
            <<In(fd, ind, "total_liabilities"), In(fd, ind, "shareholders_equity")>>
      [] ind = "current_ratio" ->
            <<In(fd, ind, "current_assets"), In(fd, ind, "current_liabilities")>>
      [] ind = "quick_ratio" ->
            <<In(fd, ind, "current_assets") - In(fd, ind, "inventory"),
              In(fd, ind, "current_liabilities")>>
      [] ind = "book_value_per_share" ->
            <<In(fd, ind, "shareholders_equity"), In(fd, ind, "shares_outstanding")>>
      [] ind = "free_cash_flow" ->
            <<In(fd, ind, "operating_cash_flow") - In(fd, ind, "capital_expenditures"), 1>>
      [] ind = "cash_flow_margin" ->
            <<In(fd, ind, "operating_cash_flow"), In(fd, ind, "revenue")>>
      [] ind = "roe" ->
            <<In(fd, ind, "net_income"), In(fd, ind, "shareholders_equity")>>
      [] ind = "roa" ->
            <<In(fd, ind, "net_income"), In(fd, ind, "total_assets")>>
      [] ind = "pe_ratio" ->
            \* price / (net_income / shares)
            <<In(fd, ind, "price") * In(fd, ind, "shares_outstanding"),
              In(fd, ind, "net_income")>>
      [] ind = "pb_ratio" ->
            \* price / (equity / shares)
            <<In(fd, ind, "price") * In(fd, ind, "shares_outstanding"),
              In(fd, ind, "shareholders_equity")>>
      [] ind = "dividend_yield" ->
            <<In(fd, ind, "dividends_per_share"), In(fd, ind, "price")>>

\* the number v is the fraction q[1]/q[2]
IsFraction(v, q) == IsNum(v) /\ v.n * q[2] = q[1] * v.d

\* C6: for each supported indicator and every bundle in which all its inputs
\* are present numbers and every denominator is non-zero, the value is the
\* formula of the specification table; a present zero input of
\* free_cash_flow or ebitda gives a number, not null.
Thm_C6_ValueIsFormula ==
    (/\ MetricOp /\ indicator \in Supported
     /\ WellFormed(financial_data)
     /\ AllPresent(financial_data, indicator)
     /\ \A r \in Denominators(indicator) : NonZero(financial_data, r[1], r[2]))
    => /\ DOMAIN result = {"indicator", "value"}
       /\ result.indicator = indicator
       /\ IsFraction(result.value, Formula(financial_data, indicator))

\* gross_margin with revenue 2 and cost_of_goods_sold 1 gives 1/2
Wit_C6_ValueIsFormula ==
    /\ MetricOp /\ indicator = "gross_margin"
    /\ financial_data =
         [income_statement |-> [revenue |-> IntVal(2), cost_of_goods_sold |-> IntVal(1)]]
    /\ result = [indicator |-> "gross_margin", value |-> Num(1, 2)]

----------------------------------------------------------------------------
\* C7: the tool mcp_calculate_financial_metrics returns a dict with the
\* metric's name as key and the metric's value as value ({'gross_margin': 0.5}).
Claim_C7_ToolResultKeyedByMetricName ==
    (MetricOp /\ indicator \in Supported /\ WellFormed(financial_data))
    => /\ indicator \in DOMAIN result
       /\ result[indicator] = metric_value(financial_data, indicator)

----------------------------------------------------------------------------
\* C8: the rsi output is undefined until `window` price deltas exist: the
\* entry at every index i < window (0-based) is nan.
Claim_C8_RsiUndefinedBeforeWindowDeltas ==
    (TechOp /\ indicator = "rsi") =>
        \A i \in 1..Len(price_data) : (i - 1 < window) => IsNaN(result.rsi[i])

----------------------------------------------------------------------------
\* no price of the `window` deltas ending at entry i (1-based, i > window)
\* is below the price before it: the average loss of the window is 0
NoLossInWindow(pd, w, i) == \A j \in (i - w + 1)..i : pd[j] >= pd[j - 1]

\* C9: at every index where the trailing-window average loss is 0 the rsi is
\* the number 100, never nan, also when no price changes inside the window.
Claim_C9_RsiIs100WhenNoLoss ==
    (TechOp /\ indicator = "rsi") =>
        \A i \in (window + 1)..Len(price_data) :
            NoLossInWindow(price_data, window, i) => result.rsi[i] = IntVal(100)

----------------------------------------------------------------------------
RECURSIVE SumPrices(_, _, _)
SumPrices(pd, lo, hi) == IF lo > hi THEN 0 ELSE pd[lo] + SumPrices(pd, lo + 1, hi)

\* C10: for sma with window w >= 1 on n prices the output has n entries, the
\* first w-1 are nan, and every later entry is the arithmetic mean of the w
\* prices ending there (all nan when w > n).
Thm_C10_SmaIsTrailingMean ==
    (TechOp /\ indicator = "sma") =>
        /\ DOMAIN result = {"sma"}
        /\ Len(result.sma) = Len(price_data)
        /\ \A i \in 1..Len(price_data) :
              IF i < window THEN IsNaN(result.sma[i])
              ELSE /\ IsNum(result.sma[i])
                   /\ result.sma[i].n * window
                        = SumPrices(price_data, i - window + 1, i) * result.sma[i].d

\* [1, 2, 3, 3] with window 3 gives nan, nan, 2, 8/3
Wit_C10_SmaIsTrailingMean ==
    /\ TechOp /\ indicator = "sma" /\ window = 3
    /\ price_data = <<1, 2, 3, 3>>
    /\ result = [sma |-> <<NaN, NaN, IntVal(2), Num(8, 3)>>]

----------------------------------------------------------------------------
KnownKinds == {"sma", "ema", "rsi", "macd", "volatility"}

\* C11: for every price series and window, an indicator kind other than sma,
\* ema, rsi, macd and volatility gives a result whose only key is 'error':
\* no numeric output key, no partial output.
Thm_C11_UnknownKindOnlyError ==
    (TechOp /\ indicator \notin KnownKinds) => DOMAIN result = {"error"}

Wit_C11_UnknownKindOnlyError ==
    /\ TechOp /\ indicator = "unknown" /\ Len(price_data) = 3
    /\ result = [error |-> "Unknown indicator: unknown"]

----------------------------------------------------------------------------
GrowthOp == op = "mcp_calculate_growth_rates"

\* a series of numbers
Numeric(s) == \A i \in 1..Len(s) : IsNum(s[i])

\* C12: on a numeric series of length n, period_growth_rates has
\* max(n-1, 0) entries; the entry for index i (1 <= i < n) is
\* (series[i] - series[i-1]) / abs(series[i-1]) when series[i-1] != 0 and
\* null when series[i-1] == 0, never infinity and never an error.
Thm_C12_PeriodGrowthRates ==
    (GrowthOp /\ Numeric(series)) =>
        /\ "error" \notin DOMAIN result
        /\ "period_growth_rates" \in DOMAIN result
        /\ Len(result.period_growth_rates)
             = (IF Len(series) > 0 THEN Len(series) - 1 ELSE 0)
        /\ \A i \in 1..(Len(series) - 1) :
              LET prev == series[i].n
                  curr == series[i + 1].n
                  g == result.period_growth_rates[i]
              IN  IF prev = 0 THEN g = None
                  ELSE IsNum(g) /\ g.n * Abs(prev) = (curr - prev) * g.d

\* [-2, 0, 1] gives [1, null]
Wit_C12_PeriodGrowthRates ==
    /\ GrowthOp
    /\ series = <<IntVal(-2), IntVal(0), IntVal(1)>>
    /\ result.period_growth_rates = <<IntVal(1), None>>

----------------------------------------------------------------------------
\* a is (last / first)^(1/k) - 1, as the power operator gives it
IsRootMinusOne(a, last, first, k) ==
    IF k = 1 THEN IsNum(a) /\ (a.n + a.d) * first = last * a.d
    ELSE /\ a.t \in {"root", "complex"}
         /\ a.k = k
         /\ a.n * first = last * a.d

\* C13: annualized_growth_rate is null exactly when the series has fewer than
\* 2 elements or series[0] == 0 (then without an 'error' key); in every
\* other case it is the value of (series[last]/series[0])^(1/(n-1)) - 1.
Thm_C13_AnnualizedGrowthRate ==
    (GrowthOp /\ Numeric(series)) =>
        /\ "error" \notin DOMAIN result
        /\ "annualized_growth_rate" \in DOMAIN result
        /\ IF Len(series) < 2 \/ series[1].n = 0
           THEN result.annualized_growth_rate = None
           ELSE /\ result.annualized_growth_rate # None
                /\ IsRootMinusOne(result.annualized_growth_rate,
                                  series[Len(series)].n, series[1].n,
                                  Len(series) - 1)

\* [1, 0, 2] gives 2^(1/2) - 1, with a null period rate beside it
Wit_C13_AnnualizedGrowthRate ==
    /\ GrowthOp
    /\ series = <<IntVal(1), IntVal(0), IntVal(2)>>
    /\ result = [annualized_growth_rate |-> [t |-> "root", n |-> 2, d |-> 1, k |-> 2],
                 period_growth_rates |-> <<IntVal(-1), None>>]

----------------------------------------------------------------------------
\* C14: for every numeric series the annualized growth rate is a real number
\* or null; where the fractional power of a negative ratio has no real
\* value, it is null and not a complex value.
Claim_C14_AnnualizedIsRealOrNull ==
    (GrowthOp /\ Numeric(series)) =>
        /\ "annualized_growth_rate" \in DOMAIN result
        /\ result.annualized_growth_rate.t \in {"num", "root", "none"}

----------------------------------------------------------------------------
TradeOp == op = "mcp_plot_trading_opportunities"

Max(a, b) == IF a > b THEN a ELSE b

\* the mean of the w prices ending at row i is above / below the mean of the
\* v prices ending there (rows are 1-based, i >= w and i >= v)
MeanAbove(pd, w, v, i) ==
    SumPrices(pd, i - w + 1, i) * v > SumPrices(pd, i - v + 1, i) * w
MeanBelow(pd, w, v, i) ==
    SumPrices(pd, i - w + 1, i) * v < SumPrices(pd, i - v + 1, i) * w

\* both averages and their previous values exist at row i: 0-based index
\* i - 1 >= max(short_window, long_window)
AllDefined(i) == i - 1 >= Max(window, long_window)

GoldenCross(i) ==
    /\ AllDefined(i)
    /\ MeanAbove(price_data, window, long_window, i)
    /\ ~MeanAbove(price_data, window, long_window, i - 1)

DeathCross(i) ==
    /\ AllDefined(i)
    /\ MeanBelow(price_data, window, long_window, i)
    /\ ~MeanBelow(price_data, window, long_window, i - 1)

\* C16: signal is 1 at row i exactly when the short moving average crosses
\* above the long one there (short_ma[i] > long_ma[i] and short_ma[i-1] <=
\* long_ma[i-1]), -1 exactly when it crosses below, 0 at every other row; no
\* row is both, and every row at an index below max(short_window,
\* long_window) has signal 0.  The chart marks exactly these rows.
Thm_C16_CrossoverSignals ==
    TradeOp =>
        /\ \A i \in 1..Len(price_data) :
              /\ result.prices_df.signal[i]
                   = (IF GoldenCross(i) THEN 1 ELSE IF DeathCross(i) THEN -1 ELSE 0)
              /\ ~(GoldenCross(i) /\ DeathCross(i))
              /\ ~AllDefined(i) => result.prices_df.signal[i] = 0
        /\ result.buy_signals = {i \in 1..Len(price_data) : GoldenCross(i)}
        /\ result.sell_signals = {i \in 1..Len(price_data) : DeathCross(i)}

\* closes [3, 1, 3, 1] with windows 1 and 2: a golden cross at index 2, a
\* death cross at index 3
Wit_C16_CrossoverSignals ==
    /\ TradeOp /\ window = 1 /\ long_window = 2
    /\ price_data = <<3, 1, 3, 1>>
    /\ result.prices_df.signal = <<0, 0, 1, -1>>

----------------------------------------------------------------------------
\* the result of the call with arguments arg executed alone
Alone(arg) ==
    CASE arg.fn = "calculate_growth_rates" -> calculate_growth_rates(arg.series)
      [] arg.fn = "calculate_financial_metric" ->
            calculate_financial_metric(arg.financial_data, arg.indicator)
      [] arg.fn = "calculate_technical_indicators" ->
            calculate_technical_indicators(arg.price_data, arg.indicator, arg.window)

\* C15: the three core computations hold no hidden state: in every
\* interleaving of two calls, a finished call's result is the result of the
\* same call executed alone, so two finished calls with the same arguments
\* have the same result and no call changes another call's outcome.
Thm_C15_NoCrossCallInterference ==
    \A c \in Callers :
        calls[c].pc = "done" =>
            /\ calls[c].result = Alone(calls[c].arg)
            /\ \A d \in Callers :
                  (calls[d].pc = "done" /\ calls[d].arg = calls[c].arg)
                      => calls[d].result = calls[c].result

\* both calls have run their loop on different series and both are finished
\* with their own rates
Wit_C15_NoCrossCallInterference ==
    /\ calls["a"].pc = "done" /\ calls["b"].pc = "done"
    /\ calls["a"].arg = [fn |-> "calculate_growth_rates",
                         series |-> <<IntVal(-2), IntVal(1)>>]
    /\ calls["b"].arg = [fn |-> "calculate_growth_rates",
                         series |-> <<IntVal(1), IntVal(-2)>>]
    /\ calls["a"].result.period_growth_rates = <<Num(3, 2)>>
    /\ calls["b"].result.period_growth_rates = <<IntVal(-3)>>

=============================================================================
